---- MODULE Spec2Model ----
(***************************************************************************)
(* Orbit fit: forward Euler integration of an inverse-square orbit, the    *)
(* stride-5 bearing observation model, the residual / Jacobian evaluation  *)
(* by forward-mode differentiation, and the fit entry point.               *)
(*                                                                         *)
(* Numbers.  f64 values are modelled in fixed point: a length or a         *)
(* velocity v is the integer v * Scale, products and quotients are         *)
(* rescaled and rounded to nearest.  Angles are integers in units of       *)
(* 1/TicksPerTurn of a turn.  A Differential<f64, Vector4<f64>> is a       *)
(* record [value, derivative] whose derivative has four slots, each in     *)
(* the same fixed point.                                                   *)
(***************************************************************************)
EXTENDS Integers, Sequences, FiniteSets, TLC

\* ------------------------------------------------------------------ bounds
MaxObsLen == 25
MaxCalls == 2

\* ------------------------------------------------------- program constants
TrajLen == 120
Stride == 5
NParams == 4

\* --------------------------------------------------- fixed-point f64 model
\* 1.0 is Scale; values are clamped to -MaxF64 .. MaxF64, and NaN is the
\* value next to that range
Scale == 64
MaxF64 == 32767
NaN == MaxF64 + 1
TicksPerTurn == 16

\* const DT: f64 = 0.25
DT == Scale \div 4

Abs(a) == IF a < 0 THEN -a ELSE a
Sign(a) == IF a < 0 THEN -1 ELSE 1
IsNaN(a) == a = NaN
Saturate(v) == IF v > MaxF64 THEN MaxF64 ELSE IF v < -MaxF64 THEN -MaxF64 ELSE v

\* n / d rounded to nearest, ties away from zero
RoundDiv(n, d) ==
    LET q == (2 * Abs(n) + Abs(d)) \div (2 * Abs(d))
    IN IF (n < 0) = (d < 0) THEN q ELSE -q

RECURSIVE SqrtSearch(_, _, _)
SqrtSearch(n, lo, hi) ==
    IF hi - lo <= 1 THEN lo
    ELSE LET mid == (lo + hi) \div 2
         IN IF mid * mid <= n THEN SqrtSearch(n, mid, hi)
                              ELSE SqrtSearch(n, lo, mid)

\* floor of the square root of a natural number below 2^31
ISqrt(n) == SqrtSearch(n, 0, 46341)

F64Neg(a) == IF IsNaN(a) THEN NaN ELSE -a

F64Add(a, b) == IF IsNaN(a) \/ IsNaN(b) THEN NaN ELSE Saturate(a + b)

F64Sub(a, b) == F64Add(a, F64Neg(b))

F64Mul(a, b) == IF IsNaN(a) \/ IsNaN(b) THEN NaN ELSE Saturate(RoundDiv(a * b, Scale))

\* 0 / 0 is NaN, x / 0 the largest value with the sign of x
F64Div(a, b) ==
    IF IsNaN(a) \/ IsNaN(b) THEN NaN
    ELSE IF b = 0 THEN (IF a = 0 THEN NaN ELSE Sign(a) * MaxF64)
    ELSE Saturate(RoundDiv(a * Scale, b))

F64Sqrt(a) == IF IsNaN(a) \/ a < 0 THEN NaN ELSE ISqrt(a * Scale)

RECURSIVE F64Powi(_, _)
F64Powi(a, n) == IF n = 0 THEN Scale ELSE F64Mul(F64Powi(a, n - 1), a)

\* cos(k * 2 pi / TicksPerTurn) * Scale for k = 0 .. TicksPerTurn - 1
CosTable == <<64, 59, 45, 24, 0, -24, -45, -59, -64, -59, -45, -24, 0, 24, 45, 59>>

\* angles are in ticks, TicksPerTurn to the turn
F64Cos(angle) ==
    IF IsNaN(angle) THEN NaN
    ELSE CosTable[(angle % TicksPerTurn) + 1]
F64Sin(angle) ==
    IF IsNaN(angle) THEN NaN
    ELSE CosTable[((angle - TicksPerTurn \div 4) % TicksPerTurn) + 1]

\* the bearing angles atan2 can return: (-pi, pi]
Bearings == (1 - TicksPerTurn \div 2) .. (TicksPerTurn \div 2)

\* atan2(y, x): the bearing whose direction is nearest to (x, y); atan2(0, 0) = 0
F64Atan2(y, x) ==
    IF IsNaN(x) \/ IsNaN(y) THEN NaN
    ELSE IF x = 0 /\ y = 0 THEN 0
    ELSE LET dot(k) == x * F64Cos(k) + y * F64Sin(k)
             best == {k \in Bearings : \A j \in Bearings : dot(j) <= dot(k)}
         IN CHOOSE k \in best : \A j \in best : Abs(k) < Abs(j) \/ (Abs(k) = Abs(j) /\ k >= j)

\* ------------------------------------------------ Differential<f64, Vector4>
\* a value and its four partial derivatives, propagated by the chain rule
Zero4 == [j \in 1..NParams |-> 0]

\* ticks per radian, 1 / (2 pi) of TicksPerTurn with pi ~ 355 / 113
TicksPerRadian == RoundDiv(TicksPerTurn * Scale * 113, 710)

\* f64 -> Differential: the value with an all-zero derivative
DiffFrom(c) == [value |-> c, derivative |-> Zero4]

DiffAdd(a, b) ==
    [value |-> F64Add(a.value, b.value),
     derivative |-> [j \in 1..NParams |-> F64Add(a.derivative[j], b.derivative[j])]]
DiffSub(a, b) ==
    [value |-> F64Sub(a.value, b.value),
     derivative |-> [j \in 1..NParams |-> F64Sub(a.derivative[j], b.derivative[j])]]
DiffNeg(a) ==
    [value |-> F64Neg(a.value),
     derivative |-> [j \in 1..NParams |-> F64Neg(a.derivative[j])]]
DiffMul(a, b) ==
    [value |-> F64Mul(a.value, b.value),
     derivative |-> [j \in 1..NParams |->
         F64Add(F64Mul(a.derivative[j], b.value), F64Mul(a.value, b.derivative[j]))]]
DiffDiv(a, b) ==
    [value |-> F64Div(a.value, b.value),
     derivative |-> [j \in 1..NParams |->
         F64Div(F64Sub(a.derivative[j], F64Mul(F64Div(a.value, b.value), b.derivative[j])),
                b.value)]]
DiffSqrt(a) ==
    [value |-> F64Sqrt(a.value),
     derivative |-> [j \in 1..NParams |->
         F64Div(a.derivative[j], F64Mul(2 * Scale, F64Sqrt(a.value)))]]
DiffPowi(a, n) ==
    [value |-> F64Powi(a.value, n),
     derivative |-> [j \in 1..NParams |->
         F64Mul(F64Mul(n * Scale, F64Powi(a.value, n - 1)), a.derivative[j])]]
\* d atan2(y, x) = (x dy - y dx) / (x^2 + y^2)
DiffAtan2(y, x) ==
    [value |-> F64Atan2(y.value, x.value),
     derivative |-> [j \in 1..NParams |->
         F64Mul(TicksPerRadian,
                F64Div(F64Sub(F64Mul(x.value, y.derivative[j]),
                              F64Mul(y.value, x.derivative[j])),
                       F64Add(F64Mul(x.value, x.value), F64Mul(y.value, y.value))))]]

\* --------------------------------------------- T: Real (f64 | Differential)
From(T, c) == IF T = "f64" THEN c ELSE DiffFrom(c)
Add(T, a, b) == IF T = "f64" THEN F64Add(a, b) ELSE DiffAdd(a, b)
Sub(T, a, b) == IF T = "f64" THEN F64Sub(a, b) ELSE DiffSub(a, b)
Neg(T, a) == IF T = "f64" THEN F64Neg(a) ELSE DiffNeg(a)
Mul(T, a, b) == IF T = "f64" THEN F64Mul(a, b) ELSE DiffMul(a, b)
Div(T, a, b) == IF T = "f64" THEN F64Div(a, b) ELSE DiffDiv(a, b)
Sqrt(T, a) == IF T = "f64" THEN F64Sqrt(a) ELSE DiffSqrt(a)
Powi(T, a, n) == IF T = "f64" THEN F64Powi(a, n) ELSE DiffPowi(a, n)
Atan2(T, y, x) == IF T = "f64" THEN F64Atan2(y, x) ELSE DiffAtan2(y, x)

\* ------------------------------------------------------------------- State
State(px, py, vx, vy) == [pos |-> <<px, py>>, vel |-> <<vx, vy>>]

\* --------------------------------------------- integrate_trajectory_euler
\* values computed once and used several times are handed on as operator
\* arguments

\* let acc = -state.pos / dist2.sqrt().powi(3)
AccOver(T, pos, den) == <<Div(T, Neg(T, pos[1]), den), Div(T, Neg(T, pos[2]), den)>>
Dist2(T, pos) == Add(T, Powi(T, pos[1], 2), Powi(T, pos[2], 2))
Acc(T, pos) == AccOver(T, pos, Powi(T, Sqrt(T, Dist2(T, pos)), 3))

\* state.pos += state.vel * dt
AdvancePos(T, state, dt) ==
    [state EXCEPT !.pos = <<Add(T, state.pos[1], Mul(T, state.vel[1], dt)),
                            Add(T, state.pos[2], Mul(T, state.vel[2], dt))>>]

\* state.vel += acc * dt
AdvanceVel(T, state, acc, dt) ==
    [state EXCEPT !.vel = <<Add(T, state.vel[1], Mul(T, acc[1], dt)),
                            Add(T, state.vel[2], Mul(T, acc[2], dt))>>]

\* a mistaken step: the acceleration is taken at the advanced position
EulerClosureSemiImplicit(T, state) ==
    AdvanceVel(T, AdvancePos(T, state, From(T, DT)),
               Acc(T, AdvancePos(T, state, From(T, DT)).pos), From(T, DT))

\* the body of the from_fn closure: acc from the captured state, then the
\* position, then the velocity advanced in place; the result is the captured
\* state after the call (its clone is what is yielded)
EulerClosure(T, state) ==
    AdvanceVel(T, AdvancePos(T, state, From(T, DT)), Acc(T, state.pos), From(T, DT))

\* the iterator returned by integrate_trajectory_euler: the captured clone of
\* the initial state and what .take(120) still allows
IntegrateTrajectoryEuler(initial_state) == [state |-> initial_state, remaining |-> TrajLen]

\* the iterator after a call of next that left it with state s, and the item
Yielded(s, item, remaining) ==
    [it |-> [state |-> s, remaining |-> remaining], item |-> <<item>>]

\* a mistaken next: yields the state it had before the step
EulerNextYieldsBefore(T, it) ==
    IF it.remaining = 0 THEN [it |-> it, item |-> <<>>]
    ELSE Yielded(EulerClosure(T, it.state), it.state, it.remaining - 1)

\* Some(state.clone()): the item is the state the closure has just advanced
YieldedClone(s, remaining) == Yielded(s, s, remaining)

\* Iterator::next on it: the iterator after the call and the item, <<>> for None
EulerNext(T, it) ==
    IF it.remaining = 0 THEN [it |-> it, item |-> <<>>]
    ELSE YieldedClone(EulerClosure(T, it.state), it.remaining - 1)

\* Iterator::nth(n) on it: skips n items and yields the next one; r is what
\* the call of next returned
RECURSIVE EulerNth(_, _, _)
EulerNthAfter(T, r, n) ==
    IF n = 0 \/ r.item = <<>> THEN r ELSE EulerNth(T, r.it, n - 1)

EulerNth(T, it, n) == EulerNthAfter(T, EulerNext(T, it), n)

\* ------------------------------------------------------ sampled_trajectory
\* integrate_trajectory_euler(initial_state).step_by(5): the StepBy adapter
\* keeps the inner iterator, step - 1 and whether the first item is due
SampledTrajectory(initial_state) ==
    [iter |-> IntegrateTrajectoryEuler(initial_state),
     step_minus_one |-> Stride - 1,
     first_take |-> TRUE]

\* .map(|s| s.pos) on what the inner iterator returned
SampledItem(st, r) ==
    [it |-> [st EXCEPT !.iter = r.it, !.first_take = FALSE],
     item |-> IF r.item = <<>> THEN <<>> ELSE <<r.item[1].pos>>]

\* a mistaken sampler: the first call skips step - 1 items as well
SampledNextSkipsFirst(T, st) == SampledItem(st, EulerNth(T, st.iter, st.step_minus_one))

\* StepBy::next followed by .map(|s| s.pos): the first call takes the inner
\* iterator's next item, every later call its nth(step - 1)
SampledNext(T, st) ==
    SampledItem(st, EulerNth(T, st.iter, IF st.first_take THEN 0 ELSE st.step_minus_one))

\* .collect::<Vec<_>>() of the sampled iterator: calls next until it returns
\* None, at most n times; the calls are split in halves to keep the
\* evaluation shallow
RECURSIVE SampledDrain(_, _, _)
DrainOne(r) == [it |-> r.it, items |-> r.item, done |-> r.item = <<>>]
DrainJoin(a, b) == [it |-> b.it, items |-> a.items \o b.items, done |-> b.done]
DrainRest(T, a, n) == IF a.done THEN a ELSE DrainJoin(a, SampledDrain(T, a.it, n))

SampledDrain(T, st, n) ==
    IF n = 1 THEN DrainOne(SampledNext(T, st))
    ELSE DrainRest(T, SampledDrain(T, st, n \div 2), n - n \div 2)

SampledCollect(T, initial_state) ==
    SampledDrain(T, SampledTrajectory(initial_state), TrajLen + 1).items

\* ----------------------------------------------------------------- observe
Observe(T, sampled_trajectory) ==
    [i \in 1..Len(sampled_trajectory) |->
        Atan2(T, sampled_trajectory[i][2], sampled_trajectory[i][1])]

\* ------------------------------------------------------ OptimizationProblem
Min(a, b) == IF a < b THEN a ELSE b

\* mistaken residuals: predicted minus observed
ZipSubNegated(T, observed, predicted) ==
    [i \in 1..Min(Len(observed), Len(predicted)) |->
        Sub(T, predicted[i], From(T, observed[i]))]

ResidualsNegated(T, observed, state) ==
    ZipSubNegated(T, observed, Observe(T, SampledCollect(T, state)))

\* self.observed.iter().zip(predicted.iter()).map(|(o, p)| T::from(*o) - *p)
ZipSub(T, observed, predicted) ==
    [i \in 1..Min(Len(observed), Len(predicted)) |->
        Sub(T, From(T, observed[i]), predicted[i])]

\* OptimizationProblem::residuals<T>: observed zipped with the predicted
\* bearings of the sampled trajectory, observed minus predicted
Residuals(T, observed, state) ==
    ZipSub(T, observed, Observe(T, SampledCollect(T, state)))

\* a mistaken set_params: the two velocity components exchanged
SetParamsOfSwapped(problem, x) ==
    [problem EXCEPT !.p.pos[1] = x[1], !.p.pos[2] = x[2],
                    !.p.vel[1] = x[4], !.p.vel[2] = x[3]]

\* LeastSquaresProblem::set_params
SetParamsOf(problem, x) ==
    [problem EXCEPT !.p.pos[1] = x[1], !.p.pos[2] = x[2],
                    !.p.vel[1] = x[3], !.p.vel[2] = x[4]]

\* LeastSquaresProblem::params
ParamsOf(problem) ==
    <<problem.p.pos[1], problem.p.pos[2], problem.p.vel[1], problem.p.vel[2]>>

\* LeastSquaresProblem::residuals
LsqResiduals(problem) == Residuals("f64", problem.observed, problem.p)

\* the differential state every component of which is lifted from the plain
\* number (.into())
Lifted(p) ==
    [pos |-> <<DiffFrom(p.pos[1]), DiffFrom(p.pos[2])>>,
     vel |-> <<DiffFrom(p.vel[1]), DiffFrom(p.vel[2])>>]

\* a mistaken seed: the slots of the two velocity components exchanged
JacobianSeedSwapped(problem) ==
    [Lifted(problem.p) EXCEPT !.pos[1].derivative[1] = Scale,
                              !.pos[2].derivative[2] = Scale,
                              !.vel[1].derivative[4] = Scale,
                              !.vel[2].derivative[3] = Scale]

\* the differential state jacobian() builds: the lifted state with 1.0
\* written to one derivative slot of each component
JacobianSeed(problem) ==
    [Lifted(problem.p) EXCEPT !.pos[1].derivative[1] = Scale,
                              !.pos[2].derivative[2] = Scale,
                              !.vel[1].derivative[3] = Scale,
                              !.vel[2].derivative[4] = Scale]

\* the residuals.len() x 4 matrix, row i filled from the derivative of
\* residual i
JacobianRows(residuals) ==
    [i \in 1..Len(residuals) |->
        <<residuals[i].derivative[1], residuals[i].derivative[2],
          residuals[i].derivative[3], residuals[i].derivative[4]>>]

\* LeastSquaresProblem::jacobian
LsqJacobian(problem) ==
    JacobianRows(Residuals("Differential", problem.observed, JacobianSeed(problem)))

\* fit_trajectory up to the call of minimize: the initial guess and the problem
GuessPosition(angle) == <<F64Cos(angle), F64Sin(angle)>>

GuessFrom(g0, g1) ==
    [pos |-> g0,
     vel |-> <<F64Div(F64Sub(g1[1], g0[1]), DT), F64Div(F64Sub(g1[2], g0[2]), DT)>>]

InitialGuess(observations) ==
    GuessFrom(GuessPosition(observations[1]), GuessPosition(observations[2]))

\* ------------------------------------------------------------ the programs
\* mem: the State values that exist while the iterators run: the caller's
\*   initial_state and the clone each from_fn closure captured
\* input: the value the caller's initial_state was created with
\* iterA, iterB: two iterators returned by integrate_trajectory_euler,
\*   outA, outB: what each call of next on them returned
\* sampler: the iterator returned by sampled_trajectory, samples: what each
\*   call of next on it returned and the index of the integrated state taken
\* observations: the Vec the caller passes to fit_trajectory
\* pc: where fit_trajectory is; problem: the OptimizationProblem, once built
\* calls: how many LeastSquaresProblem methods minimize has called
\* lastCall: the last such call, its argument, its result and the candidate
\*   state before it; lastX: the last vector given to set_params
\* result: what fit_trajectory returned
VARIABLES input, mem, iterA, iterB, outA, outB, sampler, samples,
          observations, pc, problem, calls, lastCall, lastX, result

vars == <<input, mem, iterA, iterB, outA, outB, sampler, samples,
          observations, pc, problem, calls, lastCall, lastX, result>>

iterVars == <<input, mem, iterA, iterB, outA, outB>>
sampleVars == <<sampler, samples>>
fitVars == <<observations, pc, problem, calls, lastCall, lastX, result>>

\* initial states the callers integrate from: 1.0 is Scale
InitialStates == {State(64, 0, 0, 64), State(70, 10, -20, 60)}

\* the closure of a mistaken integrator that captures the caller's State
CapturedStateShared(own) == "initial_state"

\* let mut state = initial_state.clone(): the closure owns a fresh State
CapturedState(own) == own

NoCall == [op |-> "none", arg |-> <<>>, ret |-> <<>>, before |-> <<>>]

IdleIter(s) ==
    /\ input = s
    /\ mem = [c \in {"initial_state", "a", "b"} |-> s]
    /\ iterA = [captured |-> CapturedState("a"), remaining |-> TrajLen]
    /\ iterB = [captured |-> CapturedState("b"), remaining |-> TrajLen]
    /\ outA = <<>>
    /\ outB = <<>>

IdleSample(s) ==
    /\ sampler = SampledTrajectory(s)
    /\ samples = <<>>

IdleFit(obs) ==
    /\ observations = obs
    /\ pc = "start"
    /\ problem = <<>>
    /\ calls = 0
    /\ lastCall = NoCall
    /\ lastX = <<>>
    /\ result = <<>>

\* one call of next on an iterator returned by integrate_trajectory_euler
\* the closure runs on the State it captured
IterNext(it) == EulerNext("f64", [state |-> mem[it.captured], remaining |-> it.remaining])

NextAWith(r) ==
    /\ mem' = [mem EXCEPT ![iterA.captured] = r.it.state]
    /\ iterA' = [iterA EXCEPT !.remaining = r.it.remaining]
    /\ outA' = Append(outA, r.item)

NextA ==
    /\ Len(outA) <= TrajLen
    /\ NextAWith(IterNext(iterA))
    /\ UNCHANGED <<input, iterB, outB, sampleVars, fitVars>>

NextBWith(r) ==
    /\ mem' = [mem EXCEPT ![iterB.captured] = r.it.state]
    /\ iterB' = [iterB EXCEPT !.remaining = r.it.remaining]
    /\ outB' = Append(outB, r.item)

NextB ==
    /\ Len(outB) <= TrajLen
    /\ NextBWith(IterNext(iterB))
    /\ UNCHANGED <<input, iterA, outA, sampleVars, fitVars>>

\* ---- two iterators over the same initial state, advanced in any order
InitIter ==
    /\ \E s \in InitialStates : IdleIter(s)
    /\ IdleSample(input)
    /\ IdleFit(<<>>)

NextIter == NextA \/ NextB

SpecIter == InitIter /\ [][NextIter]_vars

\* ---- sampled_trajectory next to an iterator over the same initial state
\* one call of next on the iterator returned by sampled_trajectory
NextSampleWith(r) ==
    /\ sampler' = r.it
    /\ samples' = Append(samples,
           [item |-> r.item, index |-> TrajLen - r.it.iter.remaining - 1])

NextSample ==
    /\ Len(samples) <= TrajLen \div Stride
    /\ NextSampleWith(SampledNext("f64", sampler))
    /\ UNCHANGED <<iterVars, fitVars>>

InitSample == InitIter

NextSampling == NextA \/ NextSample

SpecSample == InitSample /\ [][NextSampling]_vars

\* ---- fit_trajectory
\* the lengths of the observation sequences tried
ObsLens == {0, 1, 2, 3, TrajLen \div Stride, MaxObsLen}

\* bearings that start at a and advance by b from one observation to the next
Obs(a, b, n) == [i \in 1..n |-> a + b * (i - 1)]

ObsInputs == {Obs(0, 1, n) : n \in ObsLens} \cup {Obs(3, -1, 2), Obs(-2, 3, 3)}

\* the parameter vectors minimize tries; the last puts the body on the origin,
\* where the acceleration is 0 / 0
ParamVectors == {<<64, 0, 0, 64>>, <<70, 10, -20, 60>>, <<0, 0, 0, 0>>}

\* fit_trajectory from its entry to the call of minimize: indexing
\* observations[0] or observations[1] out of bounds panics
FitTrajectory ==
    /\ pc = "start"
    /\ IF Len(observations) < 2
       THEN /\ pc' = "panicked"
            /\ UNCHANGED problem
       ELSE /\ problem' = <<[p |-> InitialGuess(observations), observed |-> observations]>>
            /\ pc' = "minimize"
    /\ UNCHANGED <<iterVars, sampleVars, observations, calls, lastCall, lastX, result>>

\* LevenbergMarquardt::minimize calls the problem's methods in an order and
\* number of its own choosing
SetParams(x) ==
    /\ pc = "minimize" /\ calls < MaxCalls
    /\ problem' = <<SetParamsOf(problem[1], x)>>
    /\ lastCall' = [op |-> "set_params", arg |-> x, ret |-> <<>>, before |-> <<problem[1].p>>]
    /\ lastX' = x
    /\ calls' = calls + 1
    /\ UNCHANGED <<iterVars, sampleVars, observations, pc, result>>

Params ==
    /\ pc = "minimize" /\ calls < MaxCalls
    /\ lastCall' = [op |-> "params", arg |-> <<>>, ret |-> ParamsOf(problem[1]),
                    before |-> <<problem[1].p>>]
    /\ calls' = calls + 1
    /\ UNCHANGED <<iterVars, sampleVars, observations, pc, problem, lastX, result>>

ResidualsCall ==
    /\ pc = "minimize" /\ calls < MaxCalls
    /\ lastCall' = [op |-> "residuals", arg |-> <<>>, ret |-> LsqResiduals(problem[1]),
                    before |-> <<problem[1].p>>]
    /\ calls' = calls + 1
    /\ UNCHANGED <<iterVars, sampleVars, observations, pc, problem, lastX, result>>

JacobianCall ==
    /\ pc = "minimize" /\ calls < MaxCalls
    /\ lastCall' = [op |-> "jacobian", arg |-> <<>>, ret |-> LsqJacobian(problem[1]),
                    before |-> <<problem[1].p>>]
    /\ calls' = calls + 1
    /\ UNCHANGED <<iterVars, sampleVars, observations, pc, problem, lastX, result>>

\* minimize returns the problem and its report; fit_trajectory returns
\* (result.p, report)
FitReturn ==
    /\ pc = "minimize"
    /\ pc' = "returned"
    /\ result' = <<[p |-> problem[1].p, report |-> "MinimizationReport"]>>
    /\ UNCHANGED <<iterVars, sampleVars, observations, problem, calls, lastCall, lastX>>

InitFit ==
    /\ IdleIter(State(64, 0, 0, 64))
    /\ IdleSample(input)
    /\ \E obs \in ObsInputs : IdleFit(obs)

NextFit ==
    \/ FitTrajectory
    \/ \E x \in ParamVectors : SetParams(x)
    \/ Params
    \/ ResidualsCall
    \/ JacobianCall
    \/ FitReturn

SpecFit == InitFit /\ [][NextFit]_vars

\* ------------------------------------------------------------ properties
NSamples == TrajLen \div Stride

\* C1: fit_trajectory called with fewer than 2 observations returns, and its
\* report carries the degenerate-input error; it does not panic
C1_DegenerateInputReported ==
    (Len(observations) < 2 /\ pc # "start") =>
        /\ pc = "returned"
        /\ result # <<>>
        /\ result[1].report = "degenerate-input"

\* C2 as stated: the k-th sampled position (k = 1, 2, ...) is the position of
\* the integrated state at 0-based index 5 k - 1, that is 4, 9, ..., 119
C2_IndicesFromFifth ==
    \A k \in 1..Len(samples) :
        k <= NSamples =>
            /\ samples[k].item # <<>>
            /\ samples[k].index = Stride * k - 1

\* C2 amended: the k-th sampled position is the position of the integrated
\* state at 0-based index 5 (k - 1), that is 0, 5, ..., 115, in that order: 24
\* positions, then the end
C2_IndicesFromFirst ==
    /\ Len(samples) <= NSamples + 1
    /\ \A k \in 1..Len(samples) :
        IF k <= NSamples
        THEN /\ samples[k].item # <<>>
             /\ samples[k].index = Stride * (k - 1)
             /\ Len(outA) > samples[k].index =>
                    samples[k].item[1] = outA[samples[k].index + 1][1].pos
        ELSE samples[k].item = <<>>

C2_Witness ==
    /\ Len(samples) = NSamples + 1
    /\ Len(outA) = TrajLen + 1
    /\ samples[NSamples].item[1] = outA[Stride * (NSamples - 1) + 1][1].pos
    /\ samples[1].item[1] # outA[Stride][1].pos

\* what the calls of next on one iterator returned: TrajLen states, then None,
\* the last state returned being one step from the one before it (from the
\* initial state for the first)
YieldsSteps(out) ==
    /\ Len(out) <= TrajLen + 1
    /\ \A k \in 1..Len(out) : (out[k] = <<>>) <=> (k = TrajLen + 1)
    /\ LET n == Len(out)
       IN n \in 1..TrajLen =>
              out[n][1] = EulerClosure("f64", IF n = 1 THEN input ELSE out[n - 1][1])

\* C3: integrate_trajectory_euler yields exactly 120 states and then ends; the
\* first is one step from the initial state, the k-th is k steps from it
C3_YieldsSteps == YieldsSteps(outA) /\ YieldsSteps(outB)

C3_Witness ==
    /\ Len(outA) = TrajLen + 1
    /\ outA[TrajLen + 1] = <<>>
    /\ outA[1][1] # input

\* value i of the result of residuals: observed[i] minus the bearing of the
\* i-th sampled position of the candidate state
ResidualValuesOk ==
    LET observed == problem[1].observed
        sampled == SampledCollect("f64", problem[1].p)
    IN /\ Len(sampled) = NSamples
       /\ \A i \in 1..Len(lastCall.ret) :
              /\ i <= Len(observed)
              /\ lastCall.ret[i] = F64Sub(observed[i], F64Atan2(sampled[i][2], sampled[i][1]))

\* C4 as stated: residuals returns exactly 24 values, whatever the length of
\* the observed sequence
C4_Always24 ==
    lastCall.op = "residuals" => (Len(lastCall.ret) = NSamples /\ ResidualValuesOk)

\* C4 amended: residuals returns min(length of observed, 24) values, value i
\* being observed[i] minus the bearing of the i-th sampled position
C4_MinOfObservedAnd24 ==
    lastCall.op = "residuals" =>
        /\ Len(lastCall.ret) = Min(Len(problem[1].observed), NSamples)
        /\ ResidualValuesOk

C4_Witness ==
    /\ lastCall.op = "residuals"
    /\ Len(problem[1].observed) = 3
    /\ Len(lastCall.ret) = 3
    /\ \E i \in 1..3 : lastCall.ret[i] # 0

\* C5: the initial guess has the unit-circle point of observations[0] as its
\* position and the difference of the unit-circle points of observations[1]
\* and observations[0], divided by the time between two observations
\* (Stride * DT), as its velocity
C5_GuessVelocityPerObservationInterval ==
    (pc = "minimize" /\ calls = 0) =>
        LET g0 == <<F64Cos(observations[1]), F64Sin(observations[1])>>
            g1 == <<F64Cos(observations[2]), F64Sin(observations[2])>>
            interval == F64Mul(Stride * Scale, DT)
        IN /\ problem[1].p.pos = g0
           /\ problem[1].p.vel = <<F64Div(F64Sub(g1[1], g0[1]), interval),
                                   F64Div(F64Sub(g1[2], g0[2]), interval)>>

\* C6: two iterators over the same initial state yield the same states,
\* element by element, however their calls of next interleave, and the
\* caller's initial state keeps its value
C6_SameSequences ==
    /\ mem["initial_state"] = input
    /\ \A k \in 1..Min(Len(outA), Len(outB)) : outA[k] = outB[k]

C6_Witness ==
    /\ Len(outA) = TrajLen
    /\ Len(outB) = Stride
    /\ outA[Stride] = outB[Stride]
    /\ outA[Stride][1] # input

\* one explicit Euler step of pos' = vel, vel' = -pos / |pos|^3 over DT, both
\* updates from the values before the step
ExplicitEuler(s) ==
    LET r == F64Sqrt(F64Add(F64Mul(s.pos[1], s.pos[1]), F64Mul(s.pos[2], s.pos[2])))
        r3 == F64Mul(F64Mul(r, r), r)
        a == <<F64Div(F64Neg(s.pos[1]), r3), F64Div(F64Neg(s.pos[2]), r3)>>
    IN [pos |-> <<F64Add(s.pos[1], F64Mul(s.vel[1], DT)), F64Add(s.pos[2], F64Mul(s.vel[2], DT))>>,
        vel |-> <<F64Add(s.vel[1], F64Mul(a[1], DT)), F64Add(s.vel[2], F64Mul(a[2], DT))>>]

\* C8: every state an iterator yields is the explicit Euler step of the state
\* before it
C8_ExplicitEuler ==
    \A out \in {outA, outB} :
        LET n == Len(out)
        IN n \in 1..TrajLen =>
               out[n][1] = ExplicitEuler(IF n = 1 THEN input ELSE out[n - 1][1])

C8_Witness ==
    /\ Len(outA) = 2
    /\ outA[2][1].pos # outA[1][1].pos
    /\ outA[2][1].vel # outA[1][1].vel
    /\ outA[2][1] # EulerClosureSemiImplicit("f64", outA[1][1])

\* the differential of parameter j: 1.0 in slot j, 0 elsewhere
OneHot(v, j) == [value |-> v, derivative |-> [k \in 1..NParams |-> IF k = j THEN Scale ELSE 0]]

\* C9: the matrix jacobian() returns has 4 columns and as many rows as
\* residuals() has values; entry (i, j) is slot j of the derivative of
\* residual i computed from the state seeded one-hot in the order pos.x,
\* pos.y, vel.x, vel.y, and the values of those residuals are the plain ones
C9_JacobianRows ==
    lastCall.op = "jacobian" =>
        LET p == problem[1].p
            seeded == [pos |-> <<OneHot(p.pos[1], 1), OneHot(p.pos[2], 2)>>,
                       vel |-> <<OneHot(p.vel[1], 3), OneHot(p.vel[2], 4)>>]
            dres == Residuals("Differential", problem[1].observed, seeded)
            res == LsqResiduals(problem[1])
        IN /\ Len(lastCall.ret) = Len(res)
           /\ Len(dres) = Len(res)
           /\ \A i \in 1..Len(lastCall.ret) :
                  /\ Len(lastCall.ret[i]) = NParams
                  /\ \A j \in 1..NParams : lastCall.ret[i][j] = dres[i].derivative[j]
                  /\ dres[i].value = res[i]

C9_Witness ==
    /\ lastCall.op = "jacobian"
    /\ Len(lastCall.ret) = NSamples
    /\ lastCall.ret[1][3] # lastCall.ret[1][4]
    /\ lastCall.ret[2][1] # lastCall.ret[2][2]

\* C10: params() after set_params(x) returns x in the order pos.x, pos.y,
\* vel.x, vel.y; set_params changes the candidate state only, to exactly x, and
\* leaves the observed sequence alone; params(), residuals() and jacobian()
\* leave the candidate state alone
C10_ParamsRoundTrip ==
    /\ (lastCall.op = "params" /\ lastX # <<>>) => lastCall.ret = lastX
    /\ lastCall.op = "set_params" =>
           /\ problem[1].p = State(lastCall.arg[1], lastCall.arg[2],
                                   lastCall.arg[3], lastCall.arg[4])
           /\ problem[1].observed = observations
    /\ lastCall.op \in {"params", "residuals", "jacobian"} =>
           /\ problem[1].p = lastCall.before[1]
           /\ problem[1].observed = observations

C10_Witness ==
    /\ lastCall.op = "params"
    /\ lastX = <<70, 10, -20, 60>>
    /\ lastCall.ret = lastX
    /\ lastCall.before[1] = State(70, 10, -20, 60)
====
